---------------------------- MODULE Spec2Model ----------------------------
(***************************************************************************)
(* Token management and authenticated-request execution of the trademark   *)
(* search application.                                                     *)
(*                                                                         *)
(* The repository holds three authenticators:                              *)
(*   "file"     src/src/lib/inpi-client.ts: durable file cache plus the    *)
(*              in-flight promise globalThis.inpiTokenPromise;             *)
(*   "memlib"   src/unnamed/part_001: module-level accessToken,            *)
(*              xsrfTokenValue, tokenExpiry, no in-flight handle;          *)
(*   "memroute" src/src/app/api/trademarks/search/route.ts: the same       *)
(*              module-level state, private to the route.                  *)
(* Init picks one of them (variant); every inbound request then runs the   *)
(* GET handler that is written against it: searchV2/route.ts GET for       *)
(* "file" and "memlib" (it imports getAccessToken and clearAuthCache from  *)
(* "@/lib/inpi-client"), search/route.ts GET for "memroute".               *)
(*                                                                         *)
(* A step of the model is one turn of the Node event loop: a callback and  *)
(* every promise continuation it releases, up to the next network or      *)
(* file-system call of each logical request involved.  Network calls and   *)
(* file-system calls are issued in one step and answered in a later one.   *)
(* A file-system call takes effect in the thread pool at some moment       *)
(* before its continuation runs; only fs.readFile observes the file, so    *)
(* an awaited write or unlink is applied with its continuation, and an     *)
(* unlink that nobody awaits is applied at a read that follows it.         *)
(*                                                                         *)
(* The file-system calls succeed and a read returns a whole file or none.  *)
(*                                                                         *)
(* Time is Date.now() in milliseconds, counted from the instant the        *)
(* process starts.  An access token is named by the number of the login    *)
(* flow that obtained it (the upstream issues a fresh token per login).    *)
(***************************************************************************)
EXTENDS Integers, FiniteSets, Sequences, TLC

\* ------------------------------------------------------------------ bounds
NProcs == 2
MaxReqs == 2
MaxTicks == 1
MaxFaults == 2

Procs == 1..NProcs

\* ------------------------------------------------------- program constants
DefaultExpiresIn == 3600
StatusConfigError == 500
StatusMissingQuery == 400
\* A safety margin of five seconds.
ShortMarginMs == 5 * 1000

\* The safety margin of the validity test: 5 * 60 * 1000 ms.
ExpiryMarginMs == 5 * 60 * 1000

Variants == {"file", "memlib", "memroute"}

\* Date.now() is read by the cached-token check of getAccessToken() and by
\* the expiry computation of a login.  Between two readings it has not
\* moved, or has advanced by one of these amounts (ms): up to the last
\* instant at which a token of 3600 s obtained at 0 is still reused, or up
\* to the first instant at which it no longer is.
TickSteps == {DefaultExpiresIn * 1000 - ExpiryMarginMs - 1,
              DefaultExpiresIn * 1000 - ExpiryMarginMs}

\* expires_in of a login response: absent, the string "0", or a number of
\* seconds.
NoValue == -1
ZeroString == -2
ExpiresInResponses == {NoValue, ZeroString, 0, DefaultExpiresIn}

\* HTTP outcomes of an upstream call: 0 stands for "no response" (a network
\* error: error.response is undefined).
NoResponse == 0
FailStatuses == {NoResponse, 401, 403, 500}
LoginFailStatuses == {NoResponse, 401}

NoTok == 0
PrevRunTok == 99

\* Values of the XSRF-TOKEN cookie, named by the response that set them:
\* the session-priming GET of a login, or the metadata GET of a search.
NoXsrf == "none"
LoginXsrf == "login"
MetaXsrf == "meta"

NoFile == [present |-> FALSE, accessToken |-> NoTok, tokenExpiry |-> 0, jar |-> NoXsrf]
NoLogin == [st |-> "none", id |-> 0, jar |-> NoXsrf, tok |-> NoTok, exp |-> 0, status |-> 0, stage |-> "none"]
NoRet == [ok |-> FALSE, tok |-> NoTok, status |-> 0, stage |-> "none", how |-> "none"]
\* The response of the handler.  For an error: its HTTP status and the
\* code of its JSON envelope; wrapped: it is the "Failed to retry search"
\* error, and then orig is the status of the first failure (its message is
\* in details.originalSearchError) and retry names the failure of the
\* retry ("search", or the step of the login that failed); upstream is the
\* status of the upstream response the error was built from (history).
NoRes == [status |-> 0, code |-> "none", wrapped |-> FALSE, orig |-> 0,
          retry |-> "none", upstream |-> 0]
OkRes == [NoRes EXCEPT !.status = 200]

\* What a getAccessToken call saw and did (history).  The record it
\* examined at Date.now() = t was present; t was more than five minutes
\* before its expiry (lt, and then tok is its token), exactly five minutes
\* before it (eq), at least five seconds before it (near).  how is what the
\* call did: "cached", "join", "login" or "config".
NoAcq == [how |-> "none", present |-> FALSE, lt |-> FALSE, eq |-> FALSE,
          near |-> FALSE, tok |-> NoTok]
Observed(how, present, tok, exp, t) ==
  [how |-> how, present |-> present,
   lt |-> present /\ t < exp - 300000,
   eq |-> present /\ t = exp - 300000,
   near |-> present /\ t <= exp - 5000,
   tok |-> IF present /\ t < exp - 300000 THEN tok ELSE NoTok]

VARIABLES
  variant,          \* which authenticator the process runs
  credsSet,         \* process.env.INPI_USERNAME and INPI_PASSWORD are set
  now,              \* Date.now()
  ticks,            \* number of clock advances so far
  reqs,             \* number of inbound requests started so far
  faults,           \* number of upstream calls that failed so far
  file,             \* os.tmpdir()/inpi-auth-cache.json
  pendingUnlinks,   \* un-awaited fs.unlink calls not yet performed
  inpiTokenPromise, \* globalThis.inpiTokenPromise: 0 (null) or the owner of the login
  accessToken,      \* module-level, memory variants
  tokenExpiry,      \* module-level, memory variants
  xsrfTokenValue,   \* module-level (all variants)
  cookieJar,        \* XSRF-TOKEN cookie in the jar of the module-level client
  clientOwner,      \* "file": the request whose login created the module-level client
  pc,               \* position of each logical request
  att,              \* 1: first attempt, 2: the retry after a 401/403
  cachedState,      \* "file": what readCache returned to this call
  waitOn,           \* "file": owner of the promise this call awaits
  lg,               \* the login flow run by this call
  ret,              \* outcome of the getAccessToken call
  token,            \* bearer token of the current attempt
  hdrXsrf,          \* X-XSRF-TOKEN of the current attempt
  res,              \* HTTP response of the request
  nLogins,          \* login flows started so far (history)
  acq,              \* how the last getAccessToken call decided (history)
  overlap,          \* 1: another call started a login during this call, 2: and it succeeded (history)
  resultCache,      \* the keys of the entries of the result cache (cache-service.ts)
  cnt               \* per request: its handler (kind); the getAccessToken calls, upstream
                    \* calls (searches) and clears it made (history); the token and
                    \* the status of the rejected first attempt (the handler's `error`)

vars == <<variant, credsSet, now, ticks, reqs, faults, file, pendingUnlinks,
          inpiTokenPromise, accessToken, tokenExpiry, xsrfTokenValue, cookieJar,
          clientOwner, pc, att, cachedState, waitOn, lg, ret, token, hdrXsrf,
          res, nLogins, acq, overlap, resultCache, cnt>>


\* The store is process-wide; everything but the cache file starts empty.
\* The cache file survives restarts, so a "file" process may start with
\* the file of an earlier run (written with expires_in = 3600 at some
\* earlier instant: one hour before expiry, or exactly five minutes
\* before it).
InitialFiles ==
  {NoFile,
   [present |-> TRUE, accessToken |-> PrevRunTok,
    tokenExpiry |-> DefaultExpiresIn * 1000, jar |-> LoginXsrf],
   [present |-> TRUE, accessToken |-> PrevRunTok,
    tokenExpiry |-> ExpiryMarginMs, jar |-> LoginXsrf]}

\* The handlers: "search" is the GET handler of the search routes (metadata
\* GET, search POST, one retry); "post" is the POST handler of
\* searchV2/route.ts (one search POST); "proxy" is the GET handler of the
\* notice route or of the image route (one upstream GET; the two handlers
\* differ in the URL, the Accept header and the decoding of the body).
\* The last two import getAccessToken from "@/lib/inpi-client".
Kinds == {"search", "post", "proxy"}
DirectKinds == Kinds \ {"search"}

NoCnt == [kind |-> "search", key |-> <<>>, acquires |-> 0, searches |-> 0,
          clears |-> 0, rejected |-> NoTok, first |-> 0]

Init ==
  /\ variant \in Variants
  /\ credsSet \in BOOLEAN
  /\ now = 0
  /\ ticks = 0
  /\ reqs = 0
  /\ faults = 0
  /\ file \in (IF variant = "file" THEN InitialFiles ELSE {NoFile})
  /\ pendingUnlinks = 0
  /\ inpiTokenPromise = 0
  /\ accessToken = NoTok
  /\ tokenExpiry = 0
  /\ xsrfTokenValue = NoXsrf
  /\ cookieJar = NoXsrf
  /\ clientOwner = 0
  /\ pc = [p \in Procs |-> "idle"]
  /\ att = [p \in Procs |-> 1]
  /\ cachedState = [p \in Procs |-> NoFile]
  /\ waitOn = [p \in Procs |-> 0]
  /\ lg = [p \in Procs |-> NoLogin]
  /\ ret = [p \in Procs |-> NoRet]
  /\ token = [p \in Procs |-> NoTok]
  /\ hdrXsrf = [p \in Procs |-> NoXsrf]
  /\ res = [p \in Procs |-> NoRes]
  /\ nLogins = 0
  /\ acq = [p \in Procs |-> NoAcq]
  /\ overlap = [p \in Procs |-> 0]
  /\ resultCache = {}
  /\ cnt = [p \in Procs |-> NoCnt]


\* ---------------------------------------------------------------- helpers

IsMem == variant \in {"memlib", "memroute"}

\* The validity test with the boundary instant counted as still valid.
FreshAtInclusive(expiry, t) == t <= expiry - ExpiryMarginMs

\* The validity test with a margin of ten minutes.
FreshAtDoubleMargin(expiry, t) == t < expiry - 2 * ExpiryMarginMs

\* Date.now() < tokenExpiry - 5 * 60 * 1000
FreshAt(expiry, t) == t < expiry - ExpiryMarginMs

\* error.response?.status || 500
StatusOr500(s) == IF s = NoResponse THEN 500 ELSE s

\* The `stage` detail of the APIError thrown when the login POST itself
\* fails is absent in the code; the model names that throw site.
PostStage == "login-post"

\* { stage: "token-extraction" }
TokenStage == "token-extraction"

\* The stage under another name.
ShortXsrfStage == "xsrf-extraction"

\* { stage: "login-xsrf-cookie-extraction" }
XsrfStage == "login-xsrf-cookie-extraction"

\* typeof expires_in === "number" ? expires_in : 3600   (file, memlib)
\* (expires_in || 3600)                                   (memroute)
ExpiresInOf(e) ==
  IF variant = "memroute"
    THEN (IF e = NoValue \/ e = 0 THEN DefaultExpiresIn
          ELSE IF e = ZeroString THEN 0 ELSE e)
    ELSE (IF e = NoValue \/ e = ZeroString THEN DefaultExpiresIn ELSE e)

\* code of the JSON error envelope
CodeOf(status) ==
  IF status = 401 THEN "UNAUTHORIZED"
  ELSE IF status = 403 THEN "FORBIDDEN"
  ELSE "INTERNAL_ERROR"

OkRet(t, how) == [ok |-> TRUE, tok |-> t, status |-> 0, stage |-> "none", how |-> how]
ErrRet(s, stage, how) == [ok |-> FALSE, tok |-> NoTok, status |-> s, stage |-> stage, how |-> how]

\* The callers that share the outcome of p's login: p and those awaiting
\* globalThis.inpiTokenPromise while it is p's promise.
\* The login's caller alone.
SharersOwnerOnly(p) == {p}

Sharers(p) == {p} \cup {q \in Procs : pc[q] = "ga_wait" /\ waitOn[q] = p}

\* Calls that have entered getAccessToken and not yet decided.
Undecided == {q \in Procs : pc[q] \in {"ga_read", "ga_readdone"}}

\* A wrapped error that takes its status from the first failure.
ErrorResponseOrigStatus(status, orig, retry) ==
  LET st == IF orig # 0 THEN orig ELSE status
  IN  [status |-> st, code |-> CodeOf(st), wrapped |-> orig # 0,
       orig |-> orig, retry |-> retry, upstream |-> 0]

\* The handler's catch blocks: an APIError is answered with its status
\* code and the JSON envelope.  A failure of the retry (orig # 0 is the
\* status of the first failure) is first wrapped into an APIError with
\* the retry's status and both failures in its details.
ErrorResponse(status, orig, retry) ==
  [status |-> status, code |-> CodeOf(status), wrapped |-> orig # 0,
   orig |-> orig, retry |-> IF orig # 0 THEN retry ELSE "none", upstream |-> 0]

\* The counters a finished request keeps.
DoneCnt(c) == [c EXCEPT !.rejected = NoTok, !.first = 0, !.kind = "search",
                        !.key = <<>>]

\* The catch blocks of the handlers without retry.  The notice and image
\* routes answer an APIError with its status code and an axios error with
\* error.response?.status || 500, the numeric status being the code of
\* the envelope; the POST handler of searchV2 answers an APIError with its
\* status code and anything else, an axios error included, with 500.
DirectErrorResponse(k, status, isAPIError) ==
  IF k = "post"
    THEN IF isAPIError
           THEN [NoRes EXCEPT !.status = status,
                              !.code = IF status = 401 THEN "UNAUTHORIZED"
                                                       ELSE "INTERNAL_ERROR"]
           ELSE [NoRes EXCEPT !.status = 500, !.code = "INTERNAL_ERROR"]
    ELSE [NoRes EXCEPT !.status = StatusOr500(status), !.code = "STATUS"]

\* The handlers of the requests in S resume after `await getAccessToken()`
\* with the outcomes r.  With a token a handler enters performSearch /
\* performSearchV2, which reads the remembered anti-forgery value xs and
\* issues the metadata GET; an error goes to the catch blocks and is
\* answered.  att0, cnt0 and acq0 are the handlers' locals and the
\* history as the callers left them.
Resumed(S, r, att0, cnt0, acq0, xs) ==
  /\ ret' = [q \in Procs |-> IF q \in S THEN r[q] ELSE ret[q]]
  /\ pc' = [q \in Procs |->
              IF q \in S
                THEN (IF ~r[q].ok THEN "done"
                      ELSE IF cnt0[q].kind = "search" THEN "ps_meta" ELSE "up_call")
                ELSE pc[q]]
  /\ token' = [q \in Procs |-> IF q \in S THEN r[q].tok ELSE token[q]]
  /\ hdrXsrf' = [q \in Procs |->
                   IF q \in S THEN (IF r[q].ok THEN xs ELSE NoXsrf) ELSE hdrXsrf[q]]
  /\ cnt' = [q \in Procs |->
               IF q \in S
                 THEN (IF r[q].ok THEN [cnt0[q] EXCEPT !.searches = @ + 1]
                                  ELSE DoneCnt(cnt0[q]))
                 ELSE cnt0[q]]
  /\ res' = [q \in Procs |->
               IF q \in S
                 THEN (IF r[q].ok THEN NoRes
                       ELSE [(IF cnt0[q].kind = "search"
                                THEN ErrorResponse(r[q].status,
                                                   IF att0[q] = 2 THEN cnt0[q].first ELSE 0,
                                                   r[q].stage)
                                ELSE DirectErrorResponse(cnt0[q].kind, r[q].status, TRUE))
                               EXCEPT !.upstream = r[q].status])
                 ELSE res[q]]
  /\ att' = [q \in Procs |-> IF q \in S /\ ~r[q].ok THEN 1 ELSE att0[q]]
  /\ acq' = [q \in Procs |-> IF q \in S /\ ~r[q].ok THEN NoAcq ELSE acq0[q]]

\* The call of getAccessToken() by p is suspended at an await.
Suspended(p, at, att0, cnt0, acq0) ==
  /\ ret' = [ret EXCEPT ![p] = NoRet]
  /\ pc' = [pc EXCEPT ![p] = at]
  /\ res' = [res EXCEPT ![p] = NoRes]
  /\ att' = att0
  /\ cnt' = cnt0
  /\ acq' = acq0
  /\ token' = [token EXCEPT ![p] = NoTok]
  /\ hdrXsrf' = [hdrXsrf EXCEPT ![p] = NoXsrf]


\* The step reads Date.now(), which has advanced by d since it was last
\* read.
Advances == {0} \cup TickSteps
Clock(d) ==
  /\ d # 0 => ticks < MaxTicks
  /\ now' = now + d
  /\ ticks' = IF d = 0 THEN ticks ELSE ticks + 1

\* An upstream call is answered; a failing answer (an error status, no
\* response, a response without the expected cookie or token) is drawn
\* from the budget of MaxFaults.
Faulty(failed) ==
  IF failed THEN faults < MaxFaults /\ faults' = faults + 1
            ELSE UNCHANGED faults


\* ------------------------------------------------- getAccessToken: the call

\* getAccessToken() of the memory variants, called at Date.now() = t with
\* the module-level record (tok0, exp0, xs0): the credentials check, the
\* cached-token check, the reset of the record and the issue of the
\* session-priming GET.  The first two return within the same turn.
GetAccessTokenMem(p, t, tok0, exp0, xs0, att0, cnt0) ==
  LET snap(how) == [acq EXCEPT ![p] = Observed(how, tok0 # NoTok, tok0, exp0, t)]
  IN
  IF ~credsSet
    THEN /\ accessToken' = tok0 /\ tokenExpiry' = exp0 /\ xsrfTokenValue' = xs0
         /\ Resumed({p}, [q \in Procs |-> ErrRet(StatusConfigError, "config", "config")],
                    att0, cnt0, snap("config"), xs0)
         /\ UNCHANGED <<lg, nLogins>>
  ELSE IF tok0 # NoTok /\ exp0 # 0 /\ FreshAt(exp0, t)
    THEN /\ accessToken' = tok0 /\ tokenExpiry' = exp0 /\ xsrfTokenValue' = xs0
         /\ Resumed({p}, [q \in Procs |-> OkRet(tok0, "cached")],
                    att0, cnt0, snap("cached"), xs0)
         /\ UNCHANGED <<lg, nLogins>>
  ELSE /\ accessToken' = NoTok /\ tokenExpiry' = 0 /\ xsrfTokenValue' = NoXsrf
       /\ Suspended(p, "ga_own", att0, cnt0, snap("login"))
       /\ lg' = [lg EXCEPT ![p] = [NoLogin EXCEPT !.st = "get", !.id = nLogins + 1]]
       /\ nLogins' = nLogins + 1

\* getAccessToken() of the file variant: readCache() is awaited first, so
\* the call only issues fs.readFile.
GetAccessTokenFile(p, t, tok0, exp0, xs0, att0, cnt0) ==
  /\ Suspended(p, "ga_read", att0, cnt0, [acq EXCEPT ![p] = NoAcq])
  /\ accessToken' = tok0 /\ tokenExpiry' = exp0 /\ xsrfTokenValue' = xs0
  /\ UNCHANGED <<lg, nLogins>>

\* A call of getAccessToken() by request p.
GetAccessToken(p, t, tok0, exp0, xs0, att0, cnt0) ==
  IF IsMem THEN GetAccessTokenMem(p, t, tok0, exp0, xs0, att0, cnt0)
           ELSE GetAccessTokenFile(p, t, tok0, exp0, xs0, att0, cnt0)

\* ------------------------------------------------------------ the handlers

\* A GET handler starts: a request without q (without id) is answered 400;
\* otherwise the handler calls getAccessToken().  Requests are anonymous: a
\* new one takes the lowest slot that holds no running request.
StartRequest(p, k, hasQuery, d) ==
  /\ pc[p] \in {"idle", "done"}
  /\ k \in DirectKinds => variant # "memroute"
  /\ \A q \in Procs : q < p => pc[q] \notin {"idle", "done"}
  /\ reqs < MaxReqs
  /\ reqs' = reqs + 1
  /\ (~hasQuery \/ ~IsMem) => d = 0
  /\ Clock(d)
  /\ IF hasQuery
       THEN GetAccessToken(p, now + d, accessToken, tokenExpiry, xsrfTokenValue, att,
                           [cnt EXCEPT ![p] = [NoCnt EXCEPT !.acquires = 1, !.kind = k]])
       ELSE /\ pc' = [pc EXCEPT ![p] = "done"]
            /\ res' = [res EXCEPT ![p] = [NoRes EXCEPT !.status = StatusMissingQuery,
                                                       !.code = IF k = "search"
                                                                  THEN "MISSING_QUERY"
                                                                  ELSE "none"]]
            /\ cnt' = [cnt EXCEPT ![p] = NoCnt]
            /\ ret' = [ret EXCEPT ![p] = NoRet]
            /\ UNCHANGED <<accessToken, tokenExpiry, xsrfTokenValue, lg, nLogins,
                           token, hdrXsrf, att, acq>>
  /\ UNCHANGED <<variant, resultCache, credsSet, faults, file, pendingUnlinks,
                 inpiTokenPromise, cookieJar, clientOwner, cachedState, waitOn, overlap>>

\* ------------------------------------------------------- the result cache

\* The bodies of a POST to searchV2: without a `query` object, or with one
\* whose q is empty or one of two search terms (page, nbResultsPerPage,
\* sort and order are given and the same in all of them).
PostBodies ==
  {[hasQuery |-> FALSE, q |-> ""]} \cup [hasQuery : {TRUE}, q : {"", "a", "b"}]

\* `searchV2:${cacheKeyParams.toString()}`: q is part of the key only when
\* it is truthy.
CacheKey(b) == IF b.q # "" THEN <<"searchV2", "q", b.q>> ELSE <<"searchV2">>

\* ensureWeeklyFlush(), the first statement of get() and of set(): on a
\* Friday on which it has not run yet (due) it flushes the whole cache.
EnsureWeeklyFlush(c, due) == IF due THEN {} ELSE c

\* cache.get(cacheKey) is truthy
CacheHit(c, key) == key \in c

\* cache.set(cacheKey, responseData, undefined)
CacheSet(c, key) == c \cup {key}

\* A handler that stores whatever the upstream call gave.
StoredAlways(k, o) == k = "post"

\* The POST handler reaches cache.set() only when the awaited upstream
\* search has returned a 2xx response.
Stored(k, o) == k = "post" /\ o = 200

\* The POST handler of searchV2 starts with the body b.  Destructuring a
\* body without a `query` object throws, and the outer catch answers 500.
\* Otherwise the handler builds the key and looks it up (a hit is answered
\* from the cache), then answers a request without q with 400, and
\* otherwise enters performSearchV2(), which calls getAccessToken().
StartPost(p, b, due, d) ==
  /\ pc[p] \in {"idle", "done"}
  /\ variant # "memroute"
  /\ \A q \in Procs : q < p => pc[q] \notin {"idle", "done"}
  /\ reqs < MaxReqs
  /\ reqs' = reqs + 1
  /\ LET c == EnsureWeeklyFlush(resultCache, due)
         key == CacheKey(b)
         atOnce == ~b.hasQuery \/ CacheHit(c, key) \/ b.q = ""
     IN  /\ (atOnce \/ ~IsMem) => d = 0
         /\ Clock(d)
         /\ resultCache' = IF b.hasQuery THEN c ELSE resultCache
         /\ IF atOnce
              THEN /\ pc' = [pc EXCEPT ![p] = "done"]
                   /\ res' = [res EXCEPT ![p] =
                                IF ~b.hasQuery
                                  THEN [NoRes EXCEPT !.status = 500,
                                                     !.code = "INTERNAL_ERROR"]
                                ELSE IF CacheHit(c, key) THEN OkRes
                                ELSE [NoRes EXCEPT !.status = StatusMissingQuery,
                                                   !.code = "MISSING_QUERY"]]
                   /\ cnt' = [cnt EXCEPT ![p] = NoCnt]
                   /\ ret' = [ret EXCEPT ![p] = NoRet]
                   /\ UNCHANGED <<accessToken, tokenExpiry, xsrfTokenValue, lg, nLogins,
                                  token, hdrXsrf, att, acq>>
              ELSE GetAccessToken(p, now + d, accessToken, tokenExpiry, xsrfTokenValue, att,
                                  [cnt EXCEPT ![p] = [NoCnt EXCEPT !.acquires = 1,
                                                                   !.kind = "post",
                                                                   !.key = key]])
  /\ UNCHANGED <<variant, credsSet, faults, file, pendingUnlinks,
                 inpiTokenPromise, cookieJar, clientOwner, cachedState, waitOn, overlap>>


\* -------------------------------------------- getAccessToken, file variant

\* readCache() of a file read without its cookie jar.
ReadCacheWithoutJar(f) == [f EXCEPT !.jar = NoXsrf]

\* readCache(): the text is parsed and validated (accessToken a string,
\* tokenExpiry a number, a cookieJar object); anything else, or no file, is
\* null.  JSON.parse undoes the JSON.stringify of writeCache() on every
\* record a login writes.
ReadCache(f) ==
  IF f.present /\ f.accessToken > NoTok /\ f.tokenExpiry \in Int THEN f ELSE NoFile

\* fs.readFile of readCache() performed by the thread pool, after k of the
\* fs.unlink calls that nobody awaits have been performed.
FsRead(p, k) ==
  /\ pc[p] = "ga_read"
  /\ LET f == IF k > 0 THEN NoFile ELSE file
         c == ReadCache(f)
     IN  /\ file' = f
         /\ cachedState' = [cachedState EXCEPT ![p] = c]
  /\ pendingUnlinks' = pendingUnlinks - k
  /\ pc' = [pc EXCEPT ![p] = "ga_readdone"]
  /\ UNCHANGED <<variant, resultCache, credsSet, faults, now, ticks, reqs,
                 inpiTokenPromise, accessToken, tokenExpiry, xsrfTokenValue,
                 cookieJar, clientOwner, att, waitOn, lg, ret, token, hdrXsrf,
                 res, nLogins, acq, overlap, cnt>>

\* The first block of performLogin(): a new cookie jar and client, the
\* credentials check, then the session-priming GET; without credentials
\* the catch block issues clearAuthCache() and awaits it.
PerformLoginStart(p) ==
  IF credsSet
    THEN [NoLogin EXCEPT !.st = "get", !.id = nLogins + 1]
    ELSE [NoLogin EXCEPT !.st = "unlink", !.id = nLogins + 1,
                         !.status = StatusConfigError, !.stage = "config"]

\* The test with the handle never seen.
HandleNeverSeen == FALSE

\* if (globalWithInFlightPromise.inpiTokenPromise)
HandleSet == inpiTokenPromise # 0

\* The continuation of getAccessToken() after `await readCache()`: the
\* cached token is returned to the handler, or the call joins the login in
\* flight, or it starts one.
GaResume(p, d) ==
  /\ pc[p] = "ga_readdone"
  /\ Clock(d)
  /\ cachedState' = [cachedState EXCEPT ![p] = NoFile]
  /\ LET c == cachedState[p]
         t == now + d
         snap(how) == [acq EXCEPT ![p] =
                         Observed(how, c.present, c.accessToken, c.tokenExpiry, t)]
     IN
     IF c.present /\ FreshAt(c.tokenExpiry, t)
       THEN /\ Resumed({p}, [q \in Procs |-> OkRet(c.accessToken, "cached")],
                       att, cnt, snap("cached"), xsrfTokenValue)
            /\ cookieJar' = c.jar
            /\ clientOwner' = 0
            /\ overlap' = [overlap EXCEPT ![p] = 0]
            /\ UNCHANGED <<inpiTokenPromise, waitOn, lg, nLogins>>
     ELSE IF HandleSet
       THEN /\ waitOn' = [waitOn EXCEPT ![p] = inpiTokenPromise]
            /\ acq' = snap("join")
            /\ pc' = [pc EXCEPT ![p] = "ga_wait"]
            /\ overlap' = [overlap EXCEPT ![p] = 0]
            /\ UNCHANGED <<inpiTokenPromise, cookieJar, clientOwner, lg, ret, nLogins,
                           token, hdrXsrf, cnt, res, att>>
     ELSE /\ inpiTokenPromise' = p
          /\ lg' = [lg EXCEPT ![p] = PerformLoginStart(p)]
          /\ cookieJar' = NoXsrf
          /\ clientOwner' = p
          /\ nLogins' = nLogins + 1
          /\ acq' = snap("login")
          /\ overlap' = [q \in Procs |->
                           IF q # p /\ q \in Undecided /\ credsSet THEN 1 ELSE overlap[q]]
          /\ pc' = [pc EXCEPT ![p] = "ga_own"]
          /\ UNCHANGED <<waitOn, ret, token, hdrXsrf, cnt, res, att>>
  /\ UNCHANGED <<variant, resultCache, credsSet, faults, reqs, file, pendingUnlinks,
                 accessToken, tokenExpiry, xsrfTokenValue>>

\* The file after fs.writeFile of writeCache(), after fs.unlink of
\* clearAuthCache().
FsWrite(p) ==
  [present |-> TRUE, accessToken |-> lg[p].tok, tokenExpiry |-> lg[p].exp, jar |-> lg[p].jar]
FsUnlink == NoFile

\* Waiters of a failed login are handed the token of an earlier run.
DeliveredStale(p, q, outcome) ==
  IF q # p /\ ~outcome.ok THEN OkRet(PrevRunTok, "login") ELSE outcome

\* What the callers sharing p's promise receive when it settles: they hold
\* the same promise object.
Delivered(p, q, outcome) == outcome

\* A `finally` that empties the handle only after a successful login.
HandleKeptOnFailure(ok) == IF ok THEN 0 ELSE inpiTokenPromise

\* performLogin()'s `finally`: globalThis.inpiTokenPromise = null, whether
\* the login succeeded (ok) or not.
HandleAfterSettle(ok) == 0

\* performLogin() settles: the awaited writeCache() or clearAuthCache() is
\* done, then `return newAccessToken` or the rethrow; `finally` empties the
\* in-flight handle.  Every caller holding the promise receives the same
\* outcome and its handler resumes.
LoginSettle(p) ==
  /\ lg[p].st \in {"write", "unlink"}
  /\ file' = IF lg[p].st = "write" THEN FsWrite(p) ELSE FsUnlink
  /\ LET outcome == IF lg[p].st = "write"
                      THEN OkRet(lg[p].tok, "login")
                      ELSE ErrRet(lg[p].status, lg[p].stage, "login")
     IN  Resumed(Sharers(p), [q \in Procs |-> Delivered(p, q, outcome)],
                 att, cnt, acq, xsrfTokenValue)
  /\ waitOn' = [q \in Procs |-> IF q \in Sharers(p) THEN 0 ELSE waitOn[q]]
  /\ lg' = [lg EXCEPT ![p] = NoLogin]
  /\ inpiTokenPromise' = HandleAfterSettle(lg[p].st = "write")
  /\ overlap' = [q \in Procs |->
                   IF overlap[q] = 1 /\ q \in Undecided /\ lg[p].st = "write"
                     THEN 2 ELSE overlap[q]]
  /\ UNCHANGED <<variant, resultCache, credsSet, faults, now, ticks, reqs, pendingUnlinks,
                 accessToken, tokenExpiry, xsrfTokenValue, cookieJar, clientOwner,
                 cachedState, nLogins>>


\* ------------------------------------------------------- the login flow

\* Responses to the session-priming GET: success with or without an
\* XSRF-TOKEN cookie, or a failure.
GetOutcomes ==
  {[ok |-> TRUE, cookie |-> c, status |-> 200] : c \in BOOLEAN}
    \cup {[ok |-> FALSE, cookie |-> FALSE, status |-> s] : s \in LoginFailStatuses}

\* What the body of the login response holds as access_token: a non-empty
\* string, nothing, the empty string, or a non-zero number.
AccessTokenKinds == {"string", "absent", "empty", "number"}

\* !responseData || typeof access_token !== "string" || !access_token
\*                                                       (file, memlib)
\* !loginResponse.data || !loginResponse.data.access_token   (memroute)
ValidAccessToken(k) ==
  IF variant = "memroute" THEN k \in {"string", "number"} ELSE k = "string"

\* The value taken from the body for login number id: the string issued by
\* that login, or the number sent in its place (shown negated).
AccessTokenOf(id, k) == IF k = "string" THEN id ELSE 0 - id

\* Responses to the login POST: a body with some access_token and some
\* expires_in, or a failure.
PostOutcomes ==
  {[ok |-> TRUE, accessToken |-> "string", expiresIn |-> e, status |-> 200] : e \in ExpiresInResponses}
    \cup {[ok |-> TRUE, accessToken |-> k, expiresIn |-> DefaultExpiresIn, status |-> 200] :
             k \in AccessTokenKinds \ {"string"}}
    \cup {[ok |-> FALSE, accessToken |-> "absent", expiresIn |-> NoValue, status |-> s] : s \in LoginFailStatuses}

\* performLogin()'s catch block (file variant): clearAuthCache() is issued
\* and awaited; the error is rethrown once the unlink is done.
FailLoginFile(p, status, stage) ==
  /\ lg' = [lg EXCEPT ![p].st = "unlink", ![p].status = status, ![p].stage = stage]
  /\ UNCHANGED <<accessToken, tokenExpiry, xsrfTokenValue, pc, ret, token, hdrXsrf,
                 cnt, res, att, acq>>

\* The catch block with the reset of the record left out.
NotClearedOnFailure == [tok |-> accessToken, exp |-> tokenExpiry, xs |-> xsrfTokenValue]

\* The record the catch block of getAccessToken() (memory variants) leaves.
ClearedOnFailure == [tok |-> NoTok, exp |-> 0, xs |-> NoXsrf]

\* getAccessToken()'s catch block (memory variants): the record is reset
\* and the error rethrown to the handler in the same turn.
FailLoginMem(p, status, stage) ==
  /\ accessToken' = ClearedOnFailure.tok
  /\ tokenExpiry' = ClearedOnFailure.exp
  /\ xsrfTokenValue' = ClearedOnFailure.xs
  /\ lg' = [lg EXCEPT ![p] = NoLogin]
  /\ Resumed({p}, [q \in Procs |-> ErrRet(status, stage, "login")],
             att, cnt, acq, NoXsrf)

FailLogin(p, status, stage) ==
  IF IsMem THEN FailLoginMem(p, status, stage) ELSE FailLoginFile(p, status, stage)

\* The test with the cookie taken for granted.
XsrfCookieNeverMissing(j) == FALSE

\* if (!xsrfCookie?.value)
XsrfCookieMissing(j) == j = NoXsrf

\* The session-priming GET is answered; the XSRF-TOKEN cookie is looked up
\* in the jar and the login POST issued.
LoginGetResp(p, o) ==
  /\ Faulty(~o.ok \/ ~o.cookie)
  /\ lg[p].st = "get"
  /\ LET \* the jar the lookup reads: the login's own new jar (file), the
         \* shared module-level jar (memory variants)
         jarAfter == IF o.ok /\ o.cookie THEN LoginXsrf
                     ELSE IF IsMem THEN cookieJar ELSE NoXsrf
         swallowed == variant = "memroute"
     IN
     /\ cookieJar' = IF IsMem \/ clientOwner = p THEN jarAfter ELSE cookieJar
     /\ IF ~o.ok /\ ~swallowed
          THEN FailLogin(p, IF variant = "file" THEN StatusOr500(o.status) ELSE 500,
                         "initial-cookie-setup-get")
        ELSE IF XsrfCookieMissing(jarAfter)
          THEN FailLogin(p, 500, XsrfStage)
        ELSE /\ lg' = [lg EXCEPT ![p].st = "post", ![p].jar = jarAfter]
             /\ xsrfTokenValue' = IF IsMem THEN jarAfter ELSE xsrfTokenValue
             /\ UNCHANGED <<accessToken, tokenExpiry, pc, ret, token, hdrXsrf,
                            cnt, res, att, acq>>
  /\ overlap' = [overlap EXCEPT ![p] = 0]
  /\ UNCHANGED <<variant, resultCache, credsSet, now, ticks, reqs, file, pendingUnlinks,
                 inpiTokenPromise, clientOwner, cachedState, waitOn, nLogins>>

\* The login POST is answered; the token is extracted, the expiry computed
\* and the record stored (memory variants, whose handler resumes in the
\* same turn) or writeCache() issued (file).
LoginPostResp(p, o, d) ==
  /\ Faulty(~o.ok \/ o.accessToken # "string")
  /\ (~o.ok \/ ~ValidAccessToken(o.accessToken)) => d = 0
  /\ Clock(d)
  /\ lg[p].st = "post"
  /\ IF ~o.ok
       THEN FailLogin(p, StatusOr500(o.status), PostStage)
     ELSE IF ~ValidAccessToken(o.accessToken)
       THEN FailLogin(p, 500, TokenStage)
     ELSE LET newExpiry == (now + d) + ExpiresInOf(o.expiresIn) * 1000
              newAccessToken == AccessTokenOf(lg[p].id, o.accessToken)
          IN  IF IsMem
                THEN /\ accessToken' = newAccessToken
                     /\ tokenExpiry' = newExpiry
                     /\ lg' = [lg EXCEPT ![p] = NoLogin]
                     /\ UNCHANGED xsrfTokenValue
                     /\ Resumed({p}, [q \in Procs |-> OkRet(newAccessToken, "login")],
                                att, cnt, acq, xsrfTokenValue)
                ELSE /\ lg' = [lg EXCEPT ![p].st = "write", ![p].tok = newAccessToken,
                                         ![p].exp = newExpiry]
                     /\ UNCHANGED <<accessToken, tokenExpiry, xsrfTokenValue, pc, ret,
                                    token, hdrXsrf, cnt, res, att, acq>>
  /\ UNCHANGED <<variant, resultCache, credsSet, reqs, file, pendingUnlinks,
                 inpiTokenPromise, cookieJar, clientOwner, cachedState, waitOn,
                 nLogins, overlap>>


\* ------------------------------------------- the authenticated request

\* Responses to the metadata GET: a failure, success with a Set-Cookie
\* XSRF-TOKEN header, success without one.
MetaOutcomes == {"fail", "cookie", "plain"}

\* performSearchV2 (searchV2/route.ts) after the metadata GET.  clientV2 is
\* a plain axios instance, so the response does not change the jar.
MetaRespV2(p, o) ==
  LET cur == hdrXsrf[p]
  IN  /\ UNCHANGED cookieJar
      /\ IF o = "cookie"
           THEN /\ hdrXsrf' = [hdrXsrf EXCEPT ![p] = MetaXsrf]
                /\ xsrfTokenValue' = MetaXsrf
                /\ UNCHANGED <<accessToken, tokenExpiry, pendingUnlinks>>
         ELSE IF o = "plain"
           THEN IF cookieJar # NoXsrf
                  THEN IF cookieJar # cur
                         THEN /\ hdrXsrf' = [hdrXsrf EXCEPT ![p] = cookieJar]
                              /\ xsrfTokenValue' = cookieJar
                              /\ UNCHANGED <<accessToken, tokenExpiry, pendingUnlinks>>
                         ELSE UNCHANGED <<hdrXsrf, xsrfTokenValue, accessToken,
                                          tokenExpiry, pendingUnlinks>>
                ELSE /\ xsrfTokenValue' = IF cur # NoXsrf THEN cur ELSE xsrfTokenValue
                     /\ UNCHANGED <<hdrXsrf, accessToken, tokenExpiry, pendingUnlinks>>
         ELSE IF cur # NoXsrf
           THEN /\ xsrfTokenValue' = cur
                /\ UNCHANGED <<hdrXsrf, accessToken, tokenExpiry, pendingUnlinks>>
         ELSE \* clearAuthCache(), not awaited
              /\ UNCHANGED hdrXsrf
              /\ IF variant = "file"
                   THEN /\ pendingUnlinks' = pendingUnlinks + 1
                        /\ UNCHANGED <<accessToken, tokenExpiry, xsrfTokenValue>>
                   ELSE /\ accessToken' = NoTok /\ tokenExpiry' = 0
                        /\ xsrfTokenValue' = NoXsrf
                        /\ UNCHANGED pendingUnlinks

\* performSearch (search/route.ts) after the metadata GET.  client is
\* wrapped with the cookie jar, so a Set-Cookie header lands in the jar.
MetaRespRoute(p, o) ==
  LET jarAfter == IF o = "cookie" THEN MetaXsrf ELSE cookieJar
      cur == IF o # "fail" /\ jarAfter # NoXsrf THEN jarAfter ELSE hdrXsrf[p]
  IN  /\ cookieJar' = jarAfter
      /\ hdrXsrf' = [hdrXsrf EXCEPT ![p] = cur]
      /\ xsrfTokenValue' = cur
      /\ UNCHANGED <<accessToken, tokenExpiry, pendingUnlinks>>

\* The metadata GET is answered and the search POST issued.
MetaResp(p, o) ==
  /\ Faulty(o = "fail")
  /\ pc[p] = "ps_meta"
  /\ IF variant = "memroute" THEN MetaRespRoute(p, o) ELSE MetaRespV2(p, o)
  /\ pc' = [pc EXCEPT ![p] = "ps_post"]
  /\ ret' = [ret EXCEPT ![p] = NoRet]
  /\ acq' = [acq EXCEPT ![p] = NoAcq]
  /\ UNCHANGED <<variant, resultCache, credsSet, now, ticks, reqs, file, inpiTokenPromise,
                 clientOwner, att, cachedState, waitOn, lg, token, res, nLogins,
                 overlap, cnt>>

\* Responses to the search POST.
SearchOutcomes == {200} \cup FailStatuses

\* error.response?.status === 401 || error.response?.status === 403
IsAuthFailure(s) == s = 401 \/ s = 403

\* A handler that retries again after a failed retry.
RetryAlwaysAllowed(p) == TRUE

\* The handler retries only from its first attempt: the retry runs inside
\* the catch block of the first attempt and has a catch block of its own
\* that only wraps and rethrows.
RetryAllowed(p) == att[p] = 1

\* The request is answered: the handler's locals are gone.
Answered(p, r) ==
  /\ res' = [res EXCEPT ![p] = r]
  /\ pc' = [pc EXCEPT ![p] = "done"]
  /\ token' = [token EXCEPT ![p] = NoTok]
  /\ hdrXsrf' = [hdrXsrf EXCEPT ![p] = NoXsrf]
  /\ att' = [att EXCEPT ![p] = 1]
  /\ cnt' = [cnt EXCEPT ![p] = DoneCnt(@)]

\* Responses to the upstream call of a handler without retry.
DirectOutcomes == {200, NoResponse, 401, 404}

\* The upstream call of the POST handler of searchV2, of the notice route
\* or of the image route is answered; the handler answers the request, and
\* the POST handler first stores a successful answer under the request's
\* key.
DirectResp(p, o) ==
  /\ Faulty(o # 200)
  /\ pc[p] = "up_call"
  /\ \E due \in BOOLEAN :
       resultCache' = IF Stored(cnt[p].kind, o)
                        THEN CacheSet(EnsureWeeklyFlush(resultCache, due), cnt[p].key)
                        ELSE resultCache
  /\ Answered(p, IF o = 200 THEN OkRes
                 ELSE [DirectErrorResponse(cnt[p].kind, o, FALSE) EXCEPT !.upstream = o])
  /\ ret' = [ret EXCEPT ![p] = NoRet]
  /\ acq' = [acq EXCEPT ![p] = NoAcq]
  /\ UNCHANGED <<variant, credsSet, now, ticks, reqs, file, pendingUnlinks,
                 inpiTokenPromise, accessToken, tokenExpiry, xsrfTokenValue,
                 cookieJar, clientOwner, cachedState, waitOn, lg, nLogins, overlap>>

\* The search POST is answered.  A 401/403 on the first attempt clears the
\* authentication state (clearAuthCache(), not awaited, in searchV2; the
\* three assignments in search/route.ts), calls getAccessToken() again and
\* retries; any other failure, and any failure of the retry, is answered
\* with an error.
SearchResp(p, o, d) ==
  /\ Faulty(o # 200)
  /\ ~(IsMem /\ RetryAllowed(p) /\ IsAuthFailure(o)) => d = 0
  /\ Clock(d)
  /\ pc[p] = "ps_post"
  /\ IF o = 200
       THEN /\ Answered(p, OkRes)
            /\ UNCHANGED <<pendingUnlinks, accessToken, tokenExpiry, xsrfTokenValue,
                           lg, ret, acq, nLogins>>
     ELSE IF RetryAllowed(p) /\ IsAuthFailure(o)
       THEN LET att0 == [att EXCEPT ![p] = 2]
                cnt0 == [cnt EXCEPT ![p].clears = @ + 1, ![p].acquires = @ + 1,
                                    ![p].rejected = token[p], ![p].first = o]
            IN  IF variant = "file"
                  THEN /\ pendingUnlinks' = pendingUnlinks + 1
                       /\ GetAccessToken(p, now + d, accessToken, tokenExpiry, xsrfTokenValue,
                                         att0, cnt0)
                  ELSE /\ UNCHANGED pendingUnlinks
                       /\ GetAccessToken(p, now + d, NoTok, 0, NoXsrf, att0, cnt0)
     ELSE /\ Answered(p, [ErrorResponse(StatusOr500(o), cnt[p].first, "search")
                            EXCEPT !.upstream = o])
          /\ UNCHANGED <<pendingUnlinks, accessToken, tokenExpiry, xsrfTokenValue,
                         lg, ret, acq, nLogins>>
  /\ UNCHANGED <<variant, resultCache, credsSet, reqs, file, inpiTokenPromise,
                 cookieJar, clientOwner, cachedState, waitOn, overlap>>

\* The process serving the search route only.
Next ==
  \/ \E p \in Procs, q \in BOOLEAN, d \in Advances : StartRequest(p, "search", q, d)
  \/ \E p \in Procs, k \in 0..pendingUnlinks : FsRead(p, k)
  \/ \E p \in Procs, d \in Advances : GaResume(p, d)
  \/ \E p \in Procs, o \in GetOutcomes : LoginGetResp(p, o)
  \/ \E p \in Procs, o \in PostOutcomes, d \in Advances : LoginPostResp(p, o, d)
  \/ \E p \in Procs : LoginSettle(p)
  \/ \E p \in Procs, o \in MetaOutcomes : MetaResp(p, o)
  \/ \E p \in Procs, o \in SearchOutcomes, d \in Advances : SearchResp(p, o, d)

Spec == Init /\ [][Next]_vars

\* The process serving all its routes: the search GET handler, the POST
\* handler of searchV2 and the notice and image handlers, all of them with
\* the getAccessToken of "@/lib/inpi-client".  It starts with no cache file
\* left by an earlier run.
InitRoutes == Init /\ ~file.present /\ variant # "memroute"

\* The bodies with one search term.
RoutesBodies == {b \in PostBodies : b.q # "b"}

NextRoutes ==
  \/ \E p \in Procs, k \in Kinds \ {"post"}, q \in BOOLEAN, d \in Advances :
       StartRequest(p, k, q, d)
  \/ \E p \in Procs, b \in RoutesBodies, due \in BOOLEAN, d \in Advances :
       StartPost(p, b, due, d)
  \/ \E p \in Procs, k \in 0..pendingUnlinks : FsRead(p, k)
  \/ \E p \in Procs, d \in Advances : GaResume(p, d)
  \/ \E p \in Procs, o \in GetOutcomes : LoginGetResp(p, o)
  \/ \E p \in Procs, o \in PostOutcomes, d \in Advances : LoginPostResp(p, o, d)
  \/ \E p \in Procs : LoginSettle(p)
  \/ \E p \in Procs, o \in MetaOutcomes : MetaResp(p, o)
  \/ \E p \in Procs, o \in SearchOutcomes, d \in Advances : SearchResp(p, o, d)
  \/ \E p \in Procs, o \in DirectOutcomes : DirectResp(p, o)

SpecRoutes == InitRoutes /\ [][NextRoutes]_vars

\* The process serving the POST handler of searchV2 only.
NextPost ==
  \/ \E p \in Procs, b \in PostBodies, due \in BOOLEAN, d \in Advances :
       StartPost(p, b, due, d)
  \/ \E p \in Procs, k \in 0..pendingUnlinks : FsRead(p, k)
  \/ \E p \in Procs, d \in Advances : GaResume(p, d)
  \/ \E p \in Procs, o \in GetOutcomes : LoginGetResp(p, o)
  \/ \E p \in Procs, o \in PostOutcomes, d \in Advances : LoginPostResp(p, o, d)
  \/ \E p \in Procs : LoginSettle(p)
  \/ \E p \in Procs, o \in DirectOutcomes : DirectResp(p, o)

SpecPost == InitRoutes /\ [][NextPost]_vars


\* The process serving the search route with the clock standing still and
\* fewer kinds of answers, and with every operation it has issued settling
\* in the end: a request or a login that waits for an answer of the
\* network or of the file system receives one.
LivePostOutcomes ==
  {o \in PostOutcomes : /\ o.expiresIn \in {NoValue, DefaultExpiresIn}
                        /\ o.accessToken \in {"string", "absent"}}
LiveSearchOutcomes == {200, 401, NoResponse}

NextLive ==
  \/ \E p \in Procs, q \in BOOLEAN : StartRequest(p, "search", q, 0)
  \/ \E p \in Procs, k \in 0..pendingUnlinks : FsRead(p, k)
  \/ \E p \in Procs : GaResume(p, 0)
  \/ \E p \in Procs, o \in GetOutcomes : LoginGetResp(p, o)
  \/ \E p \in Procs, o \in LivePostOutcomes : LoginPostResp(p, o, 0)
  \/ \E p \in Procs : LoginSettle(p)
  \/ \E p \in Procs, o \in MetaOutcomes : MetaResp(p, o)
  \/ \E p \in Procs, o \in LiveSearchOutcomes : SearchResp(p, o, 0)

\* The operation p waits for settles.
Settles(p) ==
  \/ \E k \in 0..pendingUnlinks : FsRead(p, k)
  \/ GaResume(p, 0)
  \/ \E o \in GetOutcomes : LoginGetResp(p, o)
  \/ \E o \in LivePostOutcomes : LoginPostResp(p, o, 0)
  \/ LoginSettle(p)
  \/ \E o \in MetaOutcomes : MetaResp(p, o)
  \/ \E o \in LiveSearchOutcomes : SearchResp(p, o, 0)

SpecLive == Init /\ [][NextLive]_vars /\ \A p \in Procs : WF_vars(Settles(p))


\* ------------------------------------------------------------- properties

\* The login flows in flight.
InFlight == {p \in Procs : lg[p].st # "none"}

\* C1: single-flight.  Concurrent getAccessToken calls made while no valid
\* token is stored lead to one login flow and one token: a call that had
\* not yet decided while another call's login started and succeeded never
\* starts a login of its own.
C1_SingleFlight ==
  \A q \in Procs : overlap[q] = 2 => lg[q].st = "none"

\* C2: in every reachable state at most one login flow is in flight.
C2_AtMostOneInFlight == Cardinality(InFlight) <= 1

\* C3: every caller that found a login in flight and awaits its promise
\* receives, when the login settles, exactly the outcome of that login:
\* the owner's result, the login's token if it succeeded, the login's
\* failure (same status, same step) if it failed.
C3_SharedOutcome ==
  [][\A p \in Procs :
       (lg[p].st \in {"write", "unlink"} /\ lg'[p].st = "none") =>
         /\ ret'[p].ok <=> lg[p].st = "write"
         /\ ret'[p].ok => ret'[p].tok = lg[p].tok
         /\ ~ret'[p].ok => ret'[p].status = lg[p].status /\ ret'[p].stage = lg[p].stage
         /\ \A q \in Procs :
              (pc[q] = "ga_wait" /\ waitOn[q] = p) =>
                 ret'[q] = ret'[p] /\ pc'[q] # "ga_wait"]_vars

\* A waiter always waits on the login in flight.
C3_WaitersAttached ==
  \A q \in Procs :
    pc[q] = "ga_wait" =>
      waitOn[q] # 0 /\ waitOn[q] = inpiTokenPromise /\ lg[waitOn[q]].st # "none"

\* A caller joined a login in flight and received its token, as the owner
\* did.
C3_Witness ==
  \E p, q \in Procs :
    /\ p # q /\ acq[q].how = "join" /\ acq[p].how = "login"
    /\ pc[q] = "ps_meta" /\ pc[p] = "ps_meta"
    /\ ret[q].ok /\ ret[q] = ret[p] /\ token[q] = token[p]

C5_RetryWithNewToken ==
  \A p \in Procs :
    (att[p] = 2 /\ pc[p] \in {"ps_meta", "ps_post"}) => token[p] # cnt[p].rejected

\* The Token Store holds nothing: the module-level record is null
\* (memory variants), the cache file does not exist (file variant).
StoreAbsent ==
  IF IsMem THEN accessToken = NoTok /\ tokenExpiry = 0 /\ xsrfTokenValue = NoXsrf
           ELSE ~file.present

\* C6: clear-on-failure.  When a failed login (or the missing-credentials
\* check) is reported to a getAccessToken caller, the Token Store is
\* absent; and a call that finds the store absent never returns a token
\* from it: it starts a login flow, joins the one in flight, or fails on
\* the credentials check.
C6_ClearOnFailure ==
  [][\A p \in Procs :
       /\ (ret'[p] # ret[p] /\ ~ret'[p].ok /\ ret'[p].how \in {"login", "config"})
            => StoreAbsent'
       /\ (/\ acq[p].how = "none" /\ acq'[p].how # "none"
           /\ IF IsMem THEN accessToken = NoTok ELSE ~cachedState[p].present)
            => /\ acq'[p].how \in {"login", "join", "config"}
               /\ acq'[p].how = "login" => nLogins' = nLogins + 1]_vars

\* A login failed at the login POST, the caller has the error and the
\* store is absent.
C6_Witness ==
  \E p \in Procs :
    /\ pc[p] = "done" /\ ~ret[p].ok /\ ret[p].how = "login"
    /\ ret[p].stage = "login-post" /\ StoreAbsent

\* C7: token reuse.  A getAccessToken call that examines a record at an
\* instant more than five minutes before its expiry returns that record's
\* token within the same turn, starts no login flow (no priming GET, no
\* login POST), registers no in-flight handle and leaves the record as it
\* is.
C7_TokenReuse ==
  [][\A p \in Procs :
       (acq[p].how = "none" /\ acq'[p].how # "none" /\ acq'[p].lt) =>
         /\ acq'[p].how = "cached"
         /\ ret'[p].ok /\ ret'[p].tok = acq'[p].tok /\ token'[p] = acq'[p].tok
         /\ lg'[p].st = "none"
         /\ UNCHANGED <<nLogins, lg, inpiTokenPromise, waitOn, file, pendingUnlinks,
                        accessToken, tokenExpiry, xsrfTokenValue>>]_vars

\* A call returned the stored token of a record that was still valid when
\* the clock had advanced to one millisecond before the boundary.
C7_Witness ==
  \E p \in Procs :
    /\ acq[p].how = "cached" /\ acq[p].lt /\ pc[p] = "ps_meta"
    /\ ret[p].ok /\ token[p] = acq[p].tok /\ now > 0

\* C8: expiry boundary.  The stored token is returned only when the call
\* is made strictly more than five minutes before the expiry; a call that
\* examines a record at or after that boundary (equality included) starts
\* a login or joins the one in flight.
C8_ExpiryBoundary ==
  \A p \in Procs :
    /\ acq[p].how = "cached" => acq[p].lt /\ ~acq[p].eq
    /\ (acq[p].present /\ ~acq[p].lt) =>
         acq[p].how \in {"login", "join"} /\ acq[p].tok = NoTok

\* A call examined a record exactly five minutes before its expiry and
\* started or joined a login.
C8_Witness ==
  \E p \in Procs : acq[p].eq /\ acq[p].how \in {"login", "join"}

\* C9 as stated: a call made within 3595 seconds of a login that returned
\* expires_in = 3600 (at least five seconds before the expiry) returns
\* the stored token.
C9_ReuseWithin3595s ==
  \A p \in Procs : acq[p].near => acq[p].how = "cached"

\* C9, amended: of the calls made within 3595 seconds of a login that
\* returned expires_in = 3600, exactly those made fewer than 3300 seconds
\* after it return the stored token, and without a login flow; the calls
\* made from 3300 seconds on start or join a login.
C9_ReuseWithin3300s ==
  \A p \in Procs :
    acq[p].near =>
      /\ acq[p].how = "cached" <=> acq[p].lt
      /\ acq[p].lt => ret[p].ok /\ ret[p].tok = acq[p].tok /\ lg[p].st = "none"
      /\ ~acq[p].lt => acq[p].how \in {"login", "join"}

\* A login of this run stored a token for 3600 seconds and a call made
\* 3299.999 seconds later returned it.
C9_Witness ==
  \E p \in Procs :
    /\ acq[p].near /\ acq[p].lt /\ acq[p].how = "cached"
    /\ acq[p].tok \notin {NoTok, PrevRunTok} /\ now > 0

\* C10: without credentials no getAccessToken call returns a token,
\* whatever the Token Store holds.
C10_ConfigErrorFirst ==
  ~credsSet => \A p \in Procs : ~ret[p].ok /\ token[p] = NoTok

\* C11: the in-flight handle is emptied whenever the login it stands for
\* settles, with a token or with any failure; hence the handle, when set,
\* always stands for a login that is still running, a caller only ever
\* awaits such a login, and a call that finds no valid token after the
\* login settled starts a new one.
C11_HandleCleared ==
  [][/\ \A p \in Procs :
          (lg[p].st \in {"write", "unlink"} /\ lg'[p].st = "none") =>
             inpiTokenPromise' = 0
     /\ inpiTokenPromise' # 0 => lg'[inpiTokenPromise'].st # "none"
     /\ \A q \in Procs :
          pc'[q] = "ga_wait" =>
             waitOn'[q] = inpiTokenPromise' /\ waitOn'[q] # 0
     /\ \A q \in Procs :
          (pc[q] = "ga_readdone" /\ pc'[q] = "ga_own" /\ inpiTokenPromise = 0) =>
             inpiTokenPromise' = q /\ nLogins' = nLogins + 1]_vars

\* A login failed and settled; a later call found the handle empty and
\* its own login is now the one in flight.
C11_Witness ==
  \E p, q \in Procs :
    /\ p # q /\ inpiTokenPromise = p /\ lg[p].st # "none" /\ nLogins >= 2
    /\ pc[q] = "done" /\ ~ret[q].ok /\ ret[q].how = "login"

\* C12: when the first search was rejected with 401/403 and the retry
\* fails too (the search again, or the second getAccessToken call), the
\* request is answered with one wrapped error: it names the first failure
\* and the failure of the retry, and its HTTP status is the status of the
\* retry's failure (500 when the retry got no response).  No other answer
\* is wrapped.
C12_WrappedError ==
  [][\A p \in Procs :
       (pc[p] # "done" /\ pc'[p] = "done") =>
         /\ res'[p].wrapped <=> (att[p] = 2 /\ res'[p].status # 200)
         /\ res'[p].wrapped =>
              /\ cnt[p].first \in {401, 403} /\ res'[p].orig = cnt[p].first
              /\ res'[p].status =
                   (IF res'[p].upstream = NoResponse THEN 500 ELSE res'[p].upstream)
              /\ \/ res'[p].retry = "search" /\ pc[p] = "ps_post"
                 \/ /\ ~ret'[p].ok /\ ret'[p].how \in {"login", "config"}
                    /\ res'[p].retry = ret'[p].stage
                    /\ res'[p].status = ret'[p].status]_vars

\* The first search was rejected with 401, the login of the second
\* getAccessToken call failed without a response at the login POST, and
\* the request was answered with the wrapped error of status 500.
C12_Witness ==
  \E p \in Procs :
    /\ pc[p] = "done" /\ res[p].wrapped /\ res[p].orig = 401
    /\ res[p].retry = "login-post" /\ res[p].status = 500

\* C13: when the upstream call of a request fails on the first attempt
\* with anything but 401/403, the request is answered at once with the
\* upstream status (500 when there was no response): one upstream
\* attempt, no clear of the token store, no second getAccessToken call,
\* no retry.
C13_SurfacedDirectly ==
  [][\A p \in Procs :
       (/\ pc[p] \in {"ps_post", "up_call"} /\ att[p] = 1
        /\ (pc'[p] = "done" => res'[p].status # 200)
        /\ (pc'[p] = "done" => res'[p].upstream \notin {401, 403})
        /\ (pc'[p] # "done" => cnt'[p].first \notin {401, 403})
        /\ pc'[p] # pc[p]) =>
         /\ pc'[p] = "done" /\ ~res'[p].wrapped
         /\ res'[p].status =
              (IF res'[p].upstream = NoResponse THEN 500 ELSE res'[p].upstream)
         /\ cnt'[p].searches = 1 /\ cnt'[p].clears = 0 /\ cnt'[p].acquires = 1
         /\ UNCHANGED <<accessToken, tokenExpiry, xsrfTokenValue, file,
                        pendingUnlinks, nLogins>>]_vars

\* C14: the search, notice and image handlers alike never answer a request
\* right after a first upstream 401/403: they clear the token store, call
\* getAccessToken again and retry.
C14_SameRetryBehaviour ==
  [][\A p \in Procs :
       (pc[p] \in {"ps_post", "up_call"} /\ att[p] = 1 /\ pc'[p] = "done") =>
          res'[p].upstream \notin {401, 403}]_vars

\* The step of a login whose priming GET has been answered (or whose
\* failure the handler-local authenticator swallows): what the login does
\* when the jar its lookup reads holds no XSRF-TOKEN cookie.
C15_Step(stageName) ==
  \A p \in Procs :
    LET jarAfter == IF IsMem THEN cookieJar' ELSE lg'[p].jar
        stage == IF IsMem THEN ret'[p].stage ELSE lg'[p].stage
    IN
    /\ \A o \in GetOutcomes :
         (/\ o.ok \/ variant = "memroute"
          /\ LoginGetResp(p, o)
          /\ jarAfter = NoXsrf) =>
             /\ lg'[p].st \notin {"get", "post"}
             /\ stage = stageName
             /\ nLogins' = nLogins
    /\ (ret'[p] # ret[p] /\ ~ret'[p].ok /\ ret'[p].stage = stageName) =>
           /\ ret'[p].status = 500 /\ ret'[p].tok = NoTok
           /\ StoreAbsent'

C16_TokenExtraction ==
  [][\A p \in Procs : \A o \in PostOutcomes : \A d \in Advances :
       (o.ok /\ o.accessToken # "string" /\ LoginPostResp(p, o, d)) =>
          IF IsMem
            THEN /\ ~ret'[p].ok /\ ret'[p].stage = "token-extraction"
                 /\ ret'[p].tok = NoTok /\ token'[p] = NoTok
                 /\ accessToken' = NoTok /\ tokenExpiry' = 0
            ELSE /\ lg'[p].st = "unlink" /\ lg'[p].stage = "token-extraction"
                 /\ lg'[p].tok = NoTok]_vars

\* C17: expiry computation.  A login that succeeds stores as expiry the
\* instant at which it read the clock plus expires_in * 1000, where
\* expires_in is the value of the response when that is a number (0
\* included) and 3600 when it is absent or not a number (a string).
C17_ExpiryComputation ==
  [][\A p \in Procs : \A o \in PostOutcomes : \A d \in Advances :
       (o.ok /\ ValidAccessToken(o.accessToken) /\ LoginPostResp(p, o, d)) =>
          LET expires_in == IF o.expiresIn >= 0 THEN o.expiresIn ELSE 3600
              newExpiry == IF IsMem THEN tokenExpiry' ELSE lg'[p].exp
          IN  newExpiry = now' + expires_in * 1000]_vars

\* C18: the record as a whole.  At every suspension point the record is
\* either absent in all its fields or present in all of them: the access
\* token, its expiry and the anti-forgery value (the cookie jar of the
\* cache file) are never partially written.
C18_RecordWhole ==
  IF IsMem
    THEN \/ accessToken = NoTok /\ tokenExpiry = 0 /\ xsrfTokenValue = NoXsrf
         \/ accessToken # NoTok /\ xsrfTokenValue # NoXsrf
    ELSE \/ file = NoFile
         \/ file.present /\ file.accessToken # NoTok /\ file.jar # NoXsrf

\* The token part of the store, and whether it holds a record.
StoreRecord == IF IsMem THEN <<accessToken, tokenExpiry>> ELSE file
StorePresent == IF IsMem THEN accessToken # NoTok ELSE file.present

\* The upstream answered p's authenticated call with 401 or 403 in this
\* step.
C19_Rejected(p) ==
  /\ pc[p] = "ps_post" /\ pc'[p] # "ps_post"
  /\ IF pc'[p] = "done" THEN res'[p].upstream \in {401, 403}
                        ELSE cnt'[p].first \in {401, 403}

\* C19: the state machine of the token store.  A record becomes present
\* only when a login flow completes successfully; a login that fails
\* leaves the store absent; an upstream 401/403 on an authenticated call
\* leaves the store absent (its removal issued, for the cache file); and
\* nothing else changes the store, but a login that starts on finding the
\* record absent or expired.
C19_TokenStateMachine ==
  [][/\ (StoreRecord' # StoreRecord /\ StorePresent') =>
          \E p \in Procs :
            IF IsMem
              THEN /\ lg[p].st = "post" /\ ret'[p].ok /\ ret'[p].how = "login"
                   /\ accessToken' = ret'[p].tok
              ELSE lg[p].st = "write" /\ file' = FsWrite(p)
     /\ \A p \in Procs :
          (ret'[p] # ret[p] /\ ~ret'[p].ok /\ ret'[p].how \in {"login", "config"})
             => StoreAbsent'
     /\ \A p \in Procs :
          C19_Rejected(p) => (StoreAbsent' \/ pendingUnlinks' > pendingUnlinks)
     /\ (StoreRecord' # StoreRecord /\ ~StorePresent') =>
          \/ \E p \in Procs : lg[p].st # "none" /\ lg'[p].st = "none" /\ ~ret'[p].ok
          \/ \E p \in Procs : lg[p].st = "none" /\ lg'[p].st # "none"
          \/ \E p \in Procs : C19_Rejected(p)
          \/ pendingUnlinks' < pendingUnlinks]_vars

\* C20: clearAuthCache() removes the whole authentication state.  When the
\* clear issued on an upstream 401/403 has completed, the record is absent,
\* the cache file is removed, the remembered anti-forgery value is gone and
\* the cookie jar the next login and the next upstream requests go through
\* holds nothing of the previous session.
C20_ClearRemovesAll ==
  [][\A p \in Procs :
       /\ (IsMem /\ C19_Rejected(p) /\ cnt'[p].clears = cnt[p].clears + 1) =>
             /\ StoreAbsent'
             /\ cookieJar' = NoXsrf
       /\ (~IsMem /\ pendingUnlinks' < pendingUnlinks) =>
             /\ ~file'.present
             /\ xsrfTokenValue' = NoXsrf]_vars

\* C21: headers of an authenticated request.  While the search POST of a
\* request (first attempt or retry) or the GET of a notice or an image is
\* outstanding, it carries the token that the getAccessToken call of the
\* same request returned and an anti-forgery value of the current session:
\* the header is never empty.
C21_AuthenticatedHeaders ==
  \A p \in Procs :
    pc[p] \in {"ps_post", "up_call"} =>
      /\ token[p] # NoTok
      /\ hdrXsrf[p] # NoXsrf

\* C22: the error envelope.  A request whose getAccessToken call was
\* rejected with an APIError is answered with the status code of that
\* error, never a success status, and with the code UNAUTHORIZED for 401,
\* FORBIDDEN for 403 and INTERNAL_ERROR otherwise.
C22_ErrorEnvelope ==
  \A p \in Procs :
    (pc[p] = "done" /\ ~ret[p].ok /\ ret[p].how # "none") =>
      /\ res[p].status = ret[p].status
      /\ res[p].status # 200
      /\ res[p].code = (IF ret[p].status = 401 THEN "UNAUTHORIZED"
                        ELSE IF ret[p].status = 403 THEN "FORBIDDEN"
                        ELSE "INTERNAL_ERROR")

C24_SingleOrderedAttempt ==
  [][\A p \in Procs :
       /\ (lg'[p].st = "get" /\ lg[p].st # "get") =>
            /\ lg[p].st = "none"
            /\ nLogins' = nLogins + 1 /\ lg'[p].id = nLogins'
       /\ (lg'[p].st = "post" /\ lg[p].st # "post") =>
            /\ lg[p].st = "get" /\ lg'[p].id = lg[p].id
            /\ lg'[p].jar # NoXsrf
       /\ (lg'[p].st = "post" /\ lg[p].st = "post") => lg'[p] = lg[p]
       /\ (lg[p].st = "post" /\ lg'[p].st # "post") =>
            lg'[p].st \in {"write", "unlink", "none"}
       /\ (lg[p].st \in {"write", "unlink"} /\ lg'[p] # lg[p]) =>
            lg'[p].st = "none"]_vars

\* The login POST of a flow of lib/inpi-client.ts is outstanding with the
\* XSRF-TOKEN value its priming GET left in the flow's own jar.
C24_Witness ==
  \E p \in Procs :
    variant = "file" /\ lg[p].st = "post" /\ lg[p].jar = LoginXsrf /\ lg[p].id = nLogins

\* C25: a failed priming GET.  When the session-priming GET of a login
\* fails, the flow fails at that step: it issues no login POST (so no
\* cookie left in the jar by an earlier session completes the login) and
\* the caller is given an error.
C25_PrimingGetFailure ==
  [][\A p \in Procs : \A o \in GetOutcomes :
       (~o.ok /\ LoginGetResp(p, o)) =>
          /\ lg'[p].st # "post"
          /\ IF IsMem THEN ~ret'[p].ok /\ ret'[p].how = "login" /\ pc'[p] = "done"
                      ELSE lg'[p].st = "unlink"]_vars

\* C26: ordering inside a login of lib/inpi-client.ts.  The in-flight
\* handle stays set while its login runs and is emptied only in the turn
\* that follows the end of writeCache() (the record is in the file) or of
\* clearAuthCache() (the file is gone); hence while a login is running a
\* caller that decides finds the handle and starts no second login.
C26_HandleClearedLast ==
  [][variant = "file" =>
       /\ \A p \in Procs :
            (inpiTokenPromise = p /\ lg'[p].st # "none") => inpiTokenPromise' = p
       /\ \A p \in Procs :
            (inpiTokenPromise = p /\ inpiTokenPromise' = 0) =>
               IF lg[p].st = "write"
                 THEN /\ file'.present /\ file'.accessToken = lg[p].tok
                      /\ file'.tokenExpiry = lg[p].exp
                 ELSE lg[p].st = "unlink" /\ ~file'.present
       /\ \A q \in Procs :
            (InFlight # {} /\ pc[q] = "ga_readdone" /\ pc'[q] # "ga_readdone") =>
               /\ lg'[q].st = "none" /\ nLogins' = nLogins
               /\ ~(pc[q] = "ga_readdone" /\ cachedState[q].present
                      /\ now' < cachedState[q].tokenExpiry - 5 * 60 * 1000)
                    => pc'[q] = "ga_wait" /\ waitOn'[q] \in InFlight]_vars

\* The login POST of a login is outstanding and a second caller, having
\* read no valid record, awaits the handle.
C26_Witness ==
  \E p, q \in Procs :
    /\ variant = "file" /\ p # q /\ lg[p].st = "post" /\ inpiTokenPromise = p
    /\ pc[q] = "ga_wait" /\ waitOn[q] = p /\ ~file.present

\* C27: a clear invalidates only the rejected token.  Two requests sent
\* the same token T; the first was rejected with 401/403, re-authenticated
\* and its login stored a newer token T2.  When the second is rejected too,
\* its clear leaves T2 in the store and forces no login.
C27_ClearOnlyRejectedToken ==
  [][\A p \in Procs :
       LET stored == IF IsMem THEN accessToken ELSE file.accessToken
       IN  (/\ C19_Rejected(p) /\ att[p] = 1
            /\ stored # NoTok /\ stored # token[p]
            /\ \E q \in Procs \ {p} :
                  /\ att[q] = 2 /\ cnt[q].rejected = token[p]
                  /\ token[q] = stored) =>
              /\ nLogins' = nLogins
              /\ IF IsMem THEN accessToken' = accessToken /\ tokenExpiry' = tokenExpiry
                          ELSE file' = file /\ pendingUnlinks' = pendingUnlinks]_vars

\* The positions of a request inside getAccessToken().
InGetAccessToken == {"ga_read", "ga_readdone", "ga_own", "ga_wait"}

\* C28: liveness.  When every network and file operation settles in the
\* end, every getAccessToken call (one awaiting the in-flight handle
\* included) resolves or rejects in the end, and every search request is
\* answered in the end, once, after at most two searches and at most two
\* getAccessToken calls.
C28_EventuallyAnswered ==
  /\ [](\A p \in Procs : cnt[p].searches <= 2 /\ cnt[p].acquires <= 2)
  /\ \A p \in Procs :
       (pc[p] \in InGetAccessToken) ~> (pc[p] \notin InGetAccessToken)
  /\ \A p \in Procs :
       (pc[p] \notin {"idle", "done"}) ~> (pc[p] = "done" /\ res[p].status # 0)

\* A request has been answered with the result of its second search, sent
\* with the token of its second getAccessToken call.
C28_Witness ==
  \E p \in Procs :
    /\ pc[p] = "done" /\ res[p].status = 200
    /\ cnt[p].acquires = 2 /\ cnt[p].searches = 2 /\ nLogins >= 2

\* The request p has just been rejected for its missing query.
C29_Rejected(p) ==
  /\ pc'[p] = "done"
  /\ res'[p].status = 400
  /\ res'[p].code = "MISSING_QUERY"
  /\ cnt'[p].acquires = 0
  /\ cnt'[p].searches = 0
  /\ UNCHANGED <<accessToken, tokenExpiry, xsrfTokenValue, file, pendingUnlinks,
                 inpiTokenPromise, cookieJar, lg, nLogins, resultCache>>

\* C29: a search request without a query is rejected with HTTP 400 and the
\* code MISSING_QUERY before any authentication or upstream activity: it
\* makes no getAccessToken call and no upstream call, and it changes
\* neither the token store nor the result cache.  This holds for the GET
\* handlers and for the POST handler of searchV2, whose query is the q of
\* the `query` object of the body.
C29_MissingQueryRejected ==
  [][ /\ \A p \in Procs, d \in Advances :
           StartRequest(p, "search", FALSE, d) => C29_Rejected(p)
      /\ \A p \in Procs, b \in PostBodies, due \in BOOLEAN, d \in Advances :
           (b.q = "" /\ StartPost(p, b, due, d)) => C29_Rejected(p) ]_vars

\* C30: an entry is stored in the result cache under a key only after a
\* successful upstream search for exactly the query parameters of that
\* key, so a request that fails (authentication failure, upstream error,
\* missing query) never populates the cache; and a request whose key is in
\* the cache is answered from the cache, with no getAccessToken call and
\* no upstream call, while no other request is answered that way.
C30_ResultCache ==
  [][ /\ \A key \in resultCache' \ resultCache :
           \E p \in Procs :
             /\ pc[p] = "up_call" /\ cnt[p].kind = "post" /\ cnt[p].key = key
             /\ key \in {<<"searchV2", "q", "a">>, <<"searchV2", "q", "b">>}
             /\ pc'[p] = "done" /\ res'[p].status = 200
      /\ \A p \in Procs :
           (pc'[p] = "done" /\ res'[p] # res[p] /\ res'[p].status # 200)
             => resultCache' \subseteq resultCache
      /\ \A p \in Procs, b \in PostBodies, due \in BOOLEAN, d \in Advances :
           StartPost(p, b, due, d) =>
             LET hit == b.hasQuery /\ b.q # ""
                        /\ <<"searchV2", "q", b.q>> \in resultCache'
             IN  /\ hit => /\ pc'[p] = "done" /\ res'[p].status = 200
                           /\ cnt'[p].acquires = 0 /\ cnt'[p].searches = 0
                           /\ UNCHANGED <<accessToken, tokenExpiry, xsrfTokenValue,
                                          file, pendingUnlinks, inpiTokenPromise,
                                          cookieJar, lg, nLogins>>
                 /\ (pc'[p] = "done" /\ res'[p].status = 200) => hit ]_vars

\* A request has been answered from the cache, which holds the entry that
\* an earlier request stored.
C30_Witness ==
  \E p \in Procs :
    /\ pc[p] = "done" /\ res[p].status = 200
    /\ cnt[p].acquires = 0 /\ cnt[p].searches = 0
    /\ resultCache # {}

=============================================================================
